---- MODULE Spec2Model ----
(***************************************************************************)
(* A model of SublimeLinter3's commands.py: the goto-error navigation      *)
(* (GotoErrorCommand), the quick list of all errors                        *)
(* (SublimelinterShowAllErrors) and the selection they leave in the view,  *)
(* the report of all errors (SublimelinterReportCommand) with its          *)
(* background lint threads, and the choice of a setting from a list        *)
(* (ChooseSettingCommand).                                                 *)
(*                                                                         *)
(* A region is a pair <<begin, end>> of document offsets, begin <= end.    *)
(* A selection is a sequence of regions as sublime.Selection keeps it:     *)
(* ascending, with intersecting regions merged into one.                   *)
(***************************************************************************)
EXTENDS Integers, Sequences, FiniteSets, TLC

VARIABLES
    warnMarks,          \* view.get_regions('sublimelinter-warning-marks'), stored order
    errMarks,           \* view.get_regions('sublimelinter-error-marks'), stored order
    wrap_find,          \* persist.settings.get('wrap_find', True), as the last command read it
    errors,             \* persist.errors[vid]: sequence of <<lineno, messages>> items
    lines,              \* the document: one character sequence per line, newline included
    sel,                \* view.sel()
    error_info,         \* SublimelinterShowAllErrors.error_info
    options,            \* the rows handed to show_quick_panel
    call,               \* the last command invocation and its inputs
    region_to_select,   \* what the last goto_error returned
    marked_region,      \* what find_mark_within returned to its last direct caller
    dialog,             \* the text of the last sublime.message_dialog, "" when none
    raised,             \* the exception the last command ended with, "" when none
    report_on,          \* the 'on' argument of the report command's run, "" before it
    linters,            \* per window view: the linters SublimeLinter.lint hands to finish_lint
    pc,                 \* per window view: where its report thread stands
    edits,              \* persist.edits[output.id()]: the callbacks waiting for an edit
    editing,            \* the sublimelinter_edit command in progress, None when none
    output,             \* the text of the output view
    chooser             \* a ChooseSettingCommand, its setting and its last operation

\* the state of a view and of the commands that navigate it
navVars == <<warnMarks, errMarks, wrap_find, errors, lines, sel, error_info, options,
             call, region_to_select, marked_region, dialog, raised>>

\* the state of the report command
reportVars == <<report_on, linters, pc, edits, editing, output>>

vars == <<warnMarks, errMarks, wrap_find, errors, lines, sel, error_info, options,
          call, region_to_select, marked_region, dialog, raised,
          report_on, linters, pc, edits, editing, output, chooser>>

----------------------------------------------------------------------------
(* Bounds of the model. *)

\* document offsets are 0..MaxPos
MaxPos == 2
\* number of marks stored in the view, both severities together
MaxMarks == 2
\* leading whitespace characters of a previewed line: 0..MaxIndent
MaxIndent == 2
\* characters after the leading whitespace of a previewed line: 0..MaxBody
MaxBody == 42
\* column of the diagnostic of a previewed line: 0..MaxColumn
MaxColumn == 44
\* diagnostics stored for one line of an error map
MaxDiags == 2

----------------------------------------------------------------------------
(* Regions. *)

None == <<>>
NoPoint == -1

Pos == 0..MaxPos
Regions == {r \in Pos \X Pos : r[1] <= r[2]}

begin(r) == r[1]
end(r) == r[2]
empty(r) == begin(r) = end(r)

\* sublime.Region.contains(point)
contains_point(r, p) == begin(r) <= p /\ p <= end(r)

\* sublime.Region.contains(region)
contains(r, m) == begin(r) <= begin(m) /\ end(m) <= end(r)

\* sublime.Region.intersects: equal, or a position strictly inside both
intersects(a, b) == a = b \/ (begin(a) < end(b) /\ begin(b) < end(a))

Range(s) == {s[i] : i \in 1..Len(s)}
SetMin(S) == CHOOSE x \in S : \A y \in S : x <= y
SetMax(S) == CHOOSE x \in S : \A y \in S : y <= x

SeqsUpTo(S, n) == UNION {[1..k -> S] : k \in 0..n}

----------------------------------------------------------------------------
(* sublime.Selection: clear, add, add_all. *)

RegionBefore(a, b) == begin(a) < begin(b) \/ (begin(a) = begin(b) /\ end(a) <= end(b))

\* Selection.add(x): x is merged with the regions it intersects and the
\* result is kept in ascending order.
sel_add(S, r) ==
    LET hit == {x \in Range(S) : intersects(x, r)}
        lo == SetMin({begin(r)} \cup {begin(x) : x \in hit})
        hi == SetMax({end(r)} \cup {end(x) : x \in hit})
        rest == SelectSeq(S, LAMBDA x : ~intersects(x, r))
        k == Cardinality({i \in 1..Len(rest) : RegionBefore(rest[i], <<lo, hi>>)})
    IN SubSeq(rest, 1, k) \o << <<lo, hi>> >> \o SubSeq(rest, k + 1, Len(rest))

RECURSIVE sel_add_all(_, _)
\* Selection.add_all(regions): add each in turn
sel_add_all(S, rs) ==
    IF rs = <<>> THEN S ELSE sel_add_all(sel_add(S, Head(rs)), Tail(rs))

\* the selections a command can find in the view: no range (a plugin cleared
\* it), one range, or two
Selections == {s \in SeqsUpTo(Regions, 2) : sel_add_all(<<>>, s) = s}

----------------------------------------------------------------------------
(* GotoErrorCommand. *)

RECURSIVE sort_by_begin(_)
\* marks.sort(key=lambda x: x.begin()): a stable sort
sort_by_begin(ms) ==
    IF ms = <<>> THEN <<>>
    ELSE LET rest == sort_by_begin(SubSeq(ms, 1, Len(ms) - 1))
             m == ms[Len(ms)]
             k == Cardinality({i \in 1..Len(rest) : begin(rest[i]) <= begin(m)})
         IN SubSeq(rest, 1, k) \o <<m>> \o SubSeq(rest, k + 1, Len(rest))

\* the marks of both severities, warnings first
stored_marks(warn, err) == warn \o err

\* find_mark_within without the sort: the first stored mark inside region
find_mark_unsorted(warn, err, region) ==
    LET marks == stored_marks(warn, err)
        hits == {i \in 1..Len(marks) : contains(region, marks[i])}
    IN IF hits = {} THEN None ELSE marks[SetMin(hits)]

find_mark_within(warn, err, region) ==
    LET marks == sort_by_begin(stored_marks(warn, err))
        hits == {i \in 1..Len(marks) : contains(region, marks[i])}
    IN IF hits = {} THEN None ELSE marks[SetMin(hits)]

\* select_lint_region that adds to the selection without clearing it
select_lint_region_append(S, warn, err, region) ==
    LET mark == find_mark_within(warn, err, region)
    IN sel_add(S, IF mark = None THEN <<begin(region), begin(region)>> ELSE mark)

\* select_lint_region: the selection it leaves (S is the selection it finds)
select_lint_region(S, warn, err, region) ==
    LET mark == find_mark_within(warn, err, region)
    IN sel_add(<<>>, IF mark = None THEN <<begin(region), begin(region)>> ELSE mark)

\* regions = sublime.Selection(view.id()); clear(); add_all(warning); add_all(error)
view_regions(warn, err) == sel_add_all(sel_add_all(<<>>, warn), err)

\* the forward test without the tie-break on an empty selection
next_match_strict(region, point, empty_selection) == point < begin(region)

\* the test of the forward scan
next_match(region, point, empty_selection) ==
    \/ (point = begin(region) /\ empty_selection /\ ~empty(region))
    \/ point < begin(region)

\* the backward test comparing with the region's begin
previous_match_begin(region, point, empty_selection) ==
    \/ (point = begin(region) /\ empty_selection /\ ~empty(region))
    \/ point > begin(region)

\* the test of the backward scan
previous_match(region, point, empty_selection) ==
    \/ (point = end(region) /\ empty_selection /\ ~empty(region))
    \/ point > end(region)

\* a scan that takes every direction for 'next'
scan_always_next(regions, point, empty_selection, direction) ==
    LET hits == {i \in 1..Len(regions) : next_match(regions[i], point, empty_selection)}
    IN IF hits = {} THEN None ELSE regions[SetMin(hits)]

\* a backward scan that forgets reversed(): the regions in forward order
scan_unreversed(regions, point, empty_selection, direction) ==
    IF direction = "next"
    THEN LET hits == {i \in 1..Len(regions) :
                         next_match(regions[i], point, empty_selection)}
         IN IF hits = {} THEN None ELSE regions[SetMin(hits)]
    ELSE LET hits == {i \in 1..Len(regions) :
                         previous_match(regions[i], point, empty_selection)}
         IN IF hits = {} THEN None ELSE regions[SetMin(hits)]

\* the directional scan: the first region, in scan order, that passes the test
scan(regions, point, empty_selection, direction) ==
    IF direction = "next"
    THEN LET hits == {i \in 1..Len(regions) :
                         next_match(regions[i], point, empty_selection)}
         IN IF hits = {} THEN None ELSE regions[SetMin(hits)]
    ELSE LET hits == {i \in 1..Len(regions) :
                         previous_match(regions[i], point, empty_selection)}
         IN IF hits = {} THEN None ELSE regions[SetMax(hits)]

\* the wrap test without the single-region exception
may_wrap_always(regions, point) == TRUE

\* len(regions) > 1 or not regions[0].contains(point); regions is not empty
may_wrap(regions, point) ==
    Len(regions) > 1 \/ ~contains_point(regions[1], point)

\* a wrap that goes to the first region in both directions
wrap_target_first(regions, direction) == regions[1]

\* regions[0] if direction == 'next' else regions[-1]
wrap_target(regions, direction) ==
    IF direction = "next" THEN regions[1] ELSE regions[Len(regions)]

\* a failure path that leaves the selection as the region scan made it
restore_selection_skipped(current, saved_sel) == current

\* sel.clear(); sel.add_all(saved_sel)
restore_selection(current, saved_sel) == sel_add_all(<<>>, saved_sel)

no_more_message(direction) ==
    IF direction = "next" THEN "No next lint error." ELSE "No previous lint error."

\* goto_error(view, errors, point, direction): the selection it leaves, the
\* region it returns, the dialog it shows and the exception it ends with.
goto_error(S, warn, err, wrap, point_arg, direction) ==
    LET sel1 == IF Len(S) = 0 THEN sel_add(S, <<0, 0>>) ELSE S
        saved_sel == sel1
        empty_selection == Len(sel1) = 1 /\ empty(sel1[1])
        point == IF point_arg = NoPoint
                 THEN (IF direction = "next" THEN begin(sel1[1])
                                             ELSE end(sel1[Len(sel1)]))
                 ELSE point_arg
        regions == view_regions(warn, err)
        found == scan(regions, point, empty_selection, direction)
    IN  IF found = None /\ Len(regions) = 0
        THEN \* regions[0] of an empty selection
             [sel |-> regions, point |-> point, regions |-> regions,
              empty_selection |-> empty_selection, region_to_select |-> None,
              dialog |-> "", raised |-> "IndexError"]
        ELSE LET target == IF found = None /\ may_wrap(regions, point) /\ wrap
                           THEN wrap_target(regions, direction)
                           ELSE found
             IN IF target # None
                THEN [sel |-> select_lint_region(regions, warn, err, target),
                      point |-> point, empty_selection |-> empty_selection,
                      regions |-> regions,
                      region_to_select |-> target,
                      dialog |-> "", raised |-> ""]
                ELSE [sel |-> restore_selection(regions, saved_sel),
                      point |-> point, empty_selection |-> empty_selection,
                      regions |-> regions,
                      region_to_select |-> None,
                      dialog |-> no_more_message(direction), raised |-> ""]

----------------------------------------------------------------------------
(* SublimelinterShowAllErrors.run: the quick list.                         *)
(* A text is a sequence of character codes; a diagnostic is <<column,      *)
(* message>>, the message a number that stands for its text, in string     *)
(* order; an error map is the sequence of its <<lineno, messages>> items   *)
(* in the order the dict holds them.                                       *)

TAB == 9
NL == 10
CR == 13
SP == 32
DOT == 46
ARROW == 10140
max_prefix_len == 40

\* what str.lstrip() removes, among the characters of the model
Whitespace == {TAB, NL, CR, SP}

RECURSIVE rstrip(_, _)
\* str.rstrip(chars)
rstrip(s, chars) ==
    IF s # <<>> /\ s[Len(s)] \in chars THEN rstrip(SubSeq(s, 1, Len(s) - 1), chars) ELSE s

RECURSIVE lstrip(_)
\* str.lstrip()
lstrip(s) == IF s # <<>> /\ Head(s) \in Whitespace THEN lstrip(Tail(s)) ELSE s

\* a slice bound that is clamped to 0 when negative
slice_index_clamped(s, k) ==
    IF k < 0 THEN 0 ELSE IF k > Len(s) THEN Len(s) ELSE k

\* a slice bound as Python reads it: negative counts from the end, and the
\* result is clamped to 0..len(s)
slice_index(s, k) ==
    IF k < 0 THEN (IF Len(s) + k < 0 THEN 0 ELSE Len(s) + k)
    ELSE IF k > Len(s) THEN Len(s) ELSE k

\* s[:k]
slice_to(s, k) == SubSeq(s, 1, slice_index(s, k))

\* s[k:]
slice_from(s, k) == SubSeq(s, slice_index(s, k) + 1, Len(s))

RECURSIVE text_point(_, _, _)
\* view.text_point(row, col): the offset of the row's first character plus col
text_point(doc, row, col) ==
    IF row = 0 THEN col ELSE Len(doc[row]) + text_point(doc, row - 1, col)

\* view.substr(view.full_line(view.text_point(lineno, 0)))
full_line(doc, lineno) == doc[lineno + 1]

\* tuple order of two diagnostics (column, message)
message_le(a, b) == a[1] < b[1] \/ (a[1] = b[1] /\ a[2] <= b[2])

\* the diagnostics of a line taken in the order they are stored
messages_as_stored(messages) == messages

RECURSIVE sorted_messages(_)
\* sorted(messages)
sorted_messages(messages) ==
    IF messages = <<>> THEN <<>>
    ELSE LET rest == sorted_messages(SubSeq(messages, 1, Len(messages) - 1))
             m == messages[Len(messages)]
             k == Cardinality({i \in 1..Len(rest) : message_le(rest[i], m)})
         IN SubSeq(rest, 1, k) \o <<m>> \o SubSeq(rest, k + 1, Len(rest))

RECURSIVE sorted_items(_)
\* sorted(errors.items()): the line numbers are the dict's keys, so they decide
sorted_items(items) ==
    IF items = <<>> THEN <<>>
    ELSE LET rest == sorted_items(SubSeq(items, 1, Len(items) - 1))
             it == items[Len(items)]
             k == Cardinality({i \in 1..Len(rest) : rest[i][1] <= it[1]})
         IN SubSeq(rest, 1, k) \o <<it>> \o SubSeq(rest, k + 1, Len(rest))

\* the preview of a stripped line, diff characters stripped, for a diagnostic
\* at column message_column: lines 180-189
preview(line, diff, message_column) ==
    LET column == message_column - diff
        visible_line == IF column > max_prefix_len
                        THEN <<DOT, DOT, DOT>> \o slice_from(line, column - max_prefix_len)
                        ELSE line
        arrow_column == IF column > max_prefix_len THEN max_prefix_len + 3 ELSE column
    IN slice_to(visible_line, arrow_column) \o <<ARROW>>
           \o slice_from(visible_line, arrow_column)

\* rows that record the column after the whitespace adjustment
rows_of_item_adjusted(doc, lineno, messages) ==
    LET full == rstrip(full_line(doc, lineno), {NL, CR})
        line == lstrip(full)
        diff == Len(full) - Len(line)
        ms == sorted_messages(messages)
    IN [i \in 1..Len(ms) |->
           << <<lineno, ms[i][1] - diff>>,
              << <<lineno + 1, ms[i][2]>>, preview(line, diff, ms[i][1]) >> >>]

\* the rows of one item: <<(lineno, column), [label, code]>> per diagnostic
rows_of_item(doc, lineno, messages) ==
    LET full == rstrip(full_line(doc, lineno), {NL, CR})
        line == lstrip(full)
        diff == Len(full) - Len(line)
        ms == sorted_messages(messages)
    IN [i \in 1..Len(ms) |->
           << <<lineno, ms[i][1]>>,
              << <<lineno + 1, ms[i][2]>>, preview(line, diff, ms[i][1]) >> >>]

RECURSIVE rows_of_items(_, _)
rows_of_items(doc, items) ==
    IF items = <<>> THEN <<>>
    ELSE rows_of_item(doc, Head(items)[1], Head(items)[2])
             \o rows_of_items(doc, Tail(items))

\* the loop of run: every row, in the order it is appended
quick_list(doc, errs) == rows_of_items(doc, sorted_items(errs))

----------------------------------------------------------------------------
(* The document and the error map of the navigation runs. *)

\* a document of lines 'x\n' covering the offsets 0..MaxPos
NavLines == [i \in 1..((MaxPos + 2) \div 2) |-> <<120, NL>>]

\* one diagnostic at line 0, column 0
NavErrors == << <<0, << <<0, 1>> >> >> >>

\* no report command has run in the window
ReportIdle ==
    /\ report_on = ""
    /\ linters = <<>>
    /\ pc = <<>>
    /\ edits = <<>>
    /\ editing = None
    /\ output = <<>>

\* no ChooseSettingCommand has been created
NoChooser == [op |-> "none"]
ChooserIdle == chooser = NoChooser

NoCall == [op |-> "none", direction |-> "", point |-> NoPoint,
           empty_selection |-> FALSE, regions |-> <<>>, region |-> None, index |-> -1]

\* The marks a view can hold. The commands read the warning marks and then the
\* error marks, in both get_regions pairs, so what they see is the
\* concatenation: every sequence of at most MaxMarks marks is taken, its first
\* half stored as warnings and the rest as errors.
MarkStores ==
    {<<SubSeq(m, 1, Len(m) \div 2), SubSeq(m, Len(m) \div 2 + 1, Len(m))>> :
        m \in SeqsUpTo(Regions, MaxMarks)}

Init ==
    /\ \E ws \in MarkStores : warnMarks = ws[1] /\ errMarks = ws[2]
    /\ wrap_find = TRUE
    /\ errors \in (IF warnMarks = <<>> /\ errMarks = <<>>
                   THEN {<<>>, NavErrors} ELSE {NavErrors})
    /\ lines = NavLines
    /\ sel \in Selections
    /\ error_info = <<>>
    /\ options = <<>>
    /\ call = NoCall
    /\ region_to_select = None
    /\ marked_region = None
    /\ dialog = ""
    /\ raised = ""
    /\ ReportIdle
    /\ ChooserIdle

\* SublimelinterGotoErrorCommand.run under @error_command; the user may have
\* changed the wrap_find setting since the last command
GotoError(direction) ==
    \E wrap \in BOOLEAN :
        /\ wrap_find' = wrap
        /\ IF errors = <<>>
           THEN /\ dialog' = "No lint errors."
                /\ call' = [NoCall EXCEPT !.op = "goto", !.direction = direction]
                /\ UNCHANGED <<sel, region_to_select, marked_region, raised>>
           ELSE \E r \in {goto_error(sel, warnMarks, errMarks, wrap, NoPoint, direction)} :
                   /\ sel' = r.sel
                   /\ region_to_select' = r.region_to_select
                   /\ dialog' = r.dialog
                   /\ raised' = r.raised
                   /\ UNCHANGED marked_region
                   /\ call' = [NoCall EXCEPT !.op = "goto", !.direction = direction,
                                             !.point = r.point,
                                             !.regions = r.regions,
                                             !.empty_selection = r.empty_selection]
        /\ UNCHANGED <<warnMarks, errMarks, errors, lines, error_info, options>>
        /\ UNCHANGED <<reportVars, chooser>>

Next ==
    \/ GotoError("next")
    \/ GotoError("previous")

Spec == Init /\ [][Next]_vars

----------------------------------------------------------------------------
(* The mark search on its own: GotoErrorCommand.find_mark_within is a      *)
(* classmethod, applied here to every region.                              *)

InitMark ==
    /\ Init
    /\ errors = NavErrors
    /\ sel = << <<0, 0>> >>

FindMarkWithin(region) ==
    /\ marked_region' = find_mark_within(warnMarks, errMarks, region)
    /\ call' = [NoCall EXCEPT !.op = "find_mark_within", !.region = region]
    /\ UNCHANGED <<warnMarks, errMarks, wrap_find, errors, lines, sel, error_info,
                   options, region_to_select, dialog, raised>>
    /\ UNCHANGED <<reportVars, chooser>>

NextMark == \E region \in Regions : FindMarkWithin(region)

SpecMark == InitMark /\ [][NextMark]_vars

----------------------------------------------------------------------------
(* The directional scan on its own: the loops of goto_error applied to     *)
(* every region sequence in ascending begin order, whether or not a        *)
(* sublime.Selection can hold it.                                          *)

\* the region sequences in ascending begin order (equal begins in ascending
\* end order), overlapping and nested regions included
ScanInputs ==
    {rs \in SeqsUpTo(Regions, MaxMarks) :
        \A i, j \in 1..Len(rs) : i < j => RegionBefore(rs[i], rs[j])}

InitScan ==
    /\ warnMarks = <<>> /\ errMarks = <<>>
    /\ wrap_find = TRUE
    /\ errors = NavErrors
    /\ lines = NavLines
    /\ sel = << <<0, 0>> >>
    /\ error_info = <<>>
    /\ options = <<>>
    /\ \E rs \in ScanInputs, point \in Pos, empty_selection \in BOOLEAN :
          call = [NoCall EXCEPT !.regions = rs, !.point = point,
                                !.empty_selection = empty_selection]
    /\ region_to_select = None
    /\ marked_region = None
    /\ dialog = ""
    /\ raised = ""
    /\ ReportIdle
    /\ ChooserIdle

\* the loop of lines 87-102 over the regions, from the point, in a direction
ScanRegions(direction) ==
    /\ region_to_select' = scan(call.regions, call.point, call.empty_selection, direction)
    /\ call' = [call EXCEPT !.op = "scan", !.direction = direction]
    /\ UNCHANGED <<warnMarks, errMarks, wrap_find, errors, lines, sel, error_info,
                   options, marked_region, dialog, raised>>
    /\ UNCHANGED <<reportVars, chooser>>

NextScan ==
    \/ ScanRegions("next")
    \/ ScanRegions("previous")

SpecScan == InitScan /\ [][NextScan]_vars

----------------------------------------------------------------------------
(* The quick list on its own: previews of long lines, and error maps       *)
(* stored in every order; the list is shown and a row may be picked.       *)

\* SublimelinterShowAllErrors.run under @error_command
ShowAllErrors ==
    /\ IF errors = <<>>
       THEN /\ dialog' = "No lint errors."
            /\ UNCHANGED <<error_info, options>>
       ELSE \E rows \in {quick_list(lines, errors)} :
               /\ error_info' = [i \in 1..Len(rows) |-> rows[i][1]]
               /\ options' = [i \in 1..Len(rows) |-> rows[i][2]]
               /\ dialog' = ""
    /\ call' = [NoCall EXCEPT !.op = "show_all"]
    /\ UNCHANGED <<warnMarks, errMarks, wrap_find, errors, lines, sel,
                   region_to_select, marked_region, raised>>
    /\ UNCHANGED <<reportVars, chooser>>

\* SublimelinterShowAllErrors.select_error, the quick panel's callback; the
\* panel is the one the last run opened
select_error(index) ==
    /\ call.op = "show_all"
    /\ error_info # <<>>
    /\ \E wrap \in BOOLEAN :
        /\ wrap_find' = wrap
        /\ IF index = -1
           THEN /\ call' = [NoCall EXCEPT !.op = "select_error"]
                /\ UNCHANGED <<sel, region_to_select, dialog, raised>>
           ELSE \E r \in {goto_error(<<>>, warnMarks, errMarks, wrap,
                                     text_point(lines, error_info[index + 1][1],
                                                error_info[index + 1][2]),
                                     "next")} :
                   /\ sel' = r.sel
                   /\ region_to_select' = r.region_to_select
                   /\ dialog' = r.dialog
                   /\ raised' = r.raised
                   /\ call' = [NoCall EXCEPT !.op = "select_error", !.direction = "next",
                                             !.point = r.point,
                                             !.regions = r.regions,
                                             !.empty_selection = r.empty_selection,
                                             !.index = index]
    /\ UNCHANGED <<warnMarks, errMarks, errors, lines, error_info, options,
                   marked_region>>
    /\ UNCHANGED <<reportVars, chooser>>

\* a line of w whitespace characters and n further characters, each its own
PreviewLine(w, n) ==
    [i \in 1..w |-> IF i = 1 THEN TAB ELSE SP] \o [i \in 1..n |-> 100 + i] \o <<NL>>

\* a document of two short lines
OrderLines == << <<SP, 101, NL>>, <<102, 103, NL>> >>

OrderDiagnostics == (0..1) \X (1..2)

\* every error map over the two lines: the items in either order, the
\* diagnostics of a line in any order, repeats included
OrderErrorMaps ==
    LET Messages == SeqsUpTo(OrderDiagnostics, MaxDiags) \ {<<>>}
        Items == (0..1) \X Messages
    IN {m \in SeqsUpTo(Items, 2) : m # <<>> /\ (Len(m) = 2 => m[1][1] # m[2][1])}

InitList ==
    /\ warnMarks = <<>> /\ errMarks = <<>>
    /\ wrap_find = TRUE
    /\ \/ \E w \in 0..MaxIndent, n \in 0..MaxBody, c \in 0..MaxColumn :
             /\ lines = <<PreviewLine(w, n)>>
             /\ errors = << <<0, << <<c, 1>> >> >> >>
       \/ /\ lines = OrderLines
          /\ errors \in OrderErrorMaps
    /\ sel = << <<0, 0>> >>
    /\ error_info = <<>>
    /\ options = <<>>
    /\ call = NoCall
    /\ region_to_select = None
    /\ marked_region = None
    /\ dialog = ""
    /\ raised = ""
    /\ ReportIdle
    /\ ChooserIdle

NextList ==
    \/ ShowAllErrors
    \/ \E index \in -1..(Len(error_info) - 1) : select_error(index)

SpecList == InitList /\ [][NextList]_vars

----------------------------------------------------------------------------
(* Picking a row of the quick list: run, then select_error.                *)

\* the row of the document that holds offset p
row_of(doc, p) ==
    SetMax({row \in 0..(Len(doc) - 1) : text_point(doc, row, 0) <= p})

\* the error map with diagnostic d added to line lineno
add_diagnostic(items, lineno, d) ==
    IF \E i \in 1..Len(items) : items[i][1] = lineno
    THEN [i \in 1..Len(items) |->
             IF items[i][1] = lineno THEN <<lineno, Append(items[i][2], d)>>
                                     ELSE items[i]]
    ELSE Append(items, <<lineno, <<d>>>>)

RECURSIVE errors_of_marks(_, _, _)
\* the error map of a view whose marks each begin at their diagnostic:
\* the k-th stored mark carries the diagnostic with message k
errors_of_marks(doc, marks, k) ==
    IF k = 0 THEN <<>>
    ELSE LET row == row_of(doc, begin(marks[k]))
         IN add_diagnostic(errors_of_marks(doc, marks, k - 1), row,
                           <<begin(marks[k]) - text_point(doc, row, 0), k>>)

\* views with at least one mark, every mark at least one character wide
PickStores ==
    {ws \in MarkStores :
        /\ ws[1] \o ws[2] # <<>>
        /\ \A m \in Range(ws[1] \o ws[2]) : ~empty(m)}

InitPick ==
    /\ \E ws \in PickStores : warnMarks = ws[1] /\ errMarks = ws[2]
    /\ wrap_find = TRUE
    /\ lines = NavLines
    /\ errors = errors_of_marks(lines, warnMarks \o errMarks,
                                Len(warnMarks \o errMarks))
    /\ sel \in Selections
    /\ error_info = <<>>
    /\ options = <<>>
    /\ call = NoCall
    /\ region_to_select = None
    /\ marked_region = None
    /\ dialog = ""
    /\ raised = ""
    /\ ReportIdle
    /\ ChooserIdle

NextPick ==
    \/ ShowAllErrors
    \/ \E index \in -1..(Len(error_info) - 1) : select_error(index)

SpecPick == InitPick /\ [][NextPick]_vars

----------------------------------------------------------------------------
(* SublimelinterReportCommand: run starts one thread per view of the       *)
(* window; each thread lints its view and calls finish_lint, which queues  *)
(* an insert callback for the output view and runs the edit command.       *)
(* A linter is a record of its filename (a path, <<>> when the view has no *)
(* file) and its errors (a map as above, the messages being strings). The  *)
(* output text is a sequence of lines: <<"header", 0, name>> stands for    *)
(* '\n{name}:\n' and <<"error", line, message>> for '  {line}: {message}\n'.*)

\* views open in the window
MaxViews == 2

Views == 1..MaxViews

\* the file of a view: the first view is untitled, and from the third on
\* the views have the base name of the second
ViewFile(v) ==
    IF v = 1 THEN <<>> ELSE IF v = 2 THEN <<"src", "a.py">> ELSE <<"lib", "a.py">>

ReportNoErrors == <<>>
ReportOneError == << <<1, << <<0, "E1">> >> >> >>
ReportTwoLines == << <<2, << <<0, "E2">> >> >>, <<1, << <<3, "E1">>, <<0, "E0">> >> >> >>

\* what linting view v can hand to finish_lint: no linter, a linter without
\* errors, a linter with an error, or two linters of which one has errors
LinterLists(v) ==
    LET L(errs) == [filename |-> ViewFile(v), errors |-> errs]
    IN {<<>>, <<L(ReportNoErrors)>>, <<L(ReportOneError)>>,
        <<L(ReportNoErrors), L(ReportTwoLines)>>}

\* os.path.basename(path)
basename(path) == path[Len(path)]

\* the '  {}: {}\n' lines of one line's errors, in the order they are stored
error_lines(line, errs) == [k \in 1..Len(errs) |-> <<"error", line, errs[k][2]>>]

RECURSIVE item_lines(_)
\* for line, errors in sorted(linter.errors.items()): the items are sorted here
item_lines(items) ==
    IF items = <<>> THEN <<>>
    ELSE error_lines(Head(items)[1], Head(items)[2]) \o item_lines(Tail(items))

RECURSIVE linter_lines(_)
\* for linter in linters: if linter.errors: ...
linter_lines(ls) ==
    IF ls = <<>> THEN <<>>
    ELSE (IF Head(ls).errors # <<>> THEN item_lines(sorted_items(Head(ls).errors))
                                    ELSE <<>>)
             \o linter_lines(Tail(ls))

\* the text out that insert builds: the header and every error line
fragment(ls) ==
    LET filename == basename(IF ls[1].filename # <<>> THEN ls[1].filename
                                                      ELSE <<"untitled">>)
    IN << <<"header", 0, filename>> >> \o linter_lines(ls)

\* view.insert(edit, point, text)
text_insert(doc, point, text) ==
    SubSeq(doc, 1, point) \o text \o SubSeq(doc, point + 1, Len(doc))

\* any(l.errors for l in linters)
any_errors(ls) == \E i \in 1..Len(ls) : ls[i].errors # <<>>

\* an insert that puts the header at the top of the output and the error
\* lines at its end
insert_header_at_top(doc, ls) ==
    IF ~any_errors(ls) THEN doc
    ELSE LET out == fragment(ls)
             doc1 == text_insert(doc, 0, <<Head(out)>>)
         IN text_insert(doc1, Len(doc1), Tail(out))

\* an insert that wants every linter to have errors
insert_if_all(doc, ls) ==
    IF ~(\A i \in 1..Len(ls) : ls[i].errors # <<>>) THEN doc
    ELSE text_insert(doc, Len(doc), fragment(ls))

\* the callback insert(edit) of finish_lint: the output text it leaves
insert(doc, ls) ==
    IF ~any_errors(ls) THEN doc
    ELSE text_insert(doc, Len(doc), fragment(ls))

InitReport ==
    /\ warnMarks = <<>> /\ errMarks = <<>>
    /\ wrap_find = TRUE
    /\ errors = <<>>
    /\ lines = NavLines
    /\ sel = << <<0, 0>> >>
    /\ error_info = <<>>
    /\ options = <<>>
    /\ call = NoCall
    /\ region_to_select = None
    /\ marked_region = None
    /\ dialog = ""
    /\ raised = ""
    /\ report_on = ""
    /\ linters \in {ls \in [Views -> UNION {LinterLists(v) : v \in Views}] :
                       \A v \in Views : ls[v] \in LinterLists(v)}
    /\ pc = [v \in Views |-> "idle"]
    /\ edits = <<>>
    /\ editing = None
    /\ output = <<>>
    /\ ChooserIdle

\* SublimelinterReportCommand.run(on): a new output view, and for 'files' and
\* 'both' a started thread per view; folder() does nothing with the files
ReportRun(on) ==
    /\ report_on = ""
    /\ report_on' = on
    /\ output' = <<>>
    /\ pc' = [v \in Views |-> IF on \in {"files", "both"} THEN "lint" ELSE "idle"]
    /\ UNCHANGED <<linters, edits, editing>>
    /\ UNCHANGED <<navVars, chooser>>

\* the thread of view v runs SublimeLinter.lint, which collects the view's
\* linters and then calls the callback
Lint(v) ==
    /\ pc[v] = "lint"
    /\ pc' = [pc EXCEPT ![v] = "finish_lint"]
    /\ UNCHANGED <<report_on, linters, edits, editing, output>>
    /\ UNCHANGED <<navVars, chooser>>

\* finish_lint(view, linters) up to persist.edits[output.id()].append(insert)
FinishLint(v) ==
    /\ pc[v] = "finish_lint"
    /\ IF linters[v] = <<>>
       THEN /\ pc' = [pc EXCEPT ![v] = "done"]
            /\ UNCHANGED edits
       ELSE /\ edits' = Append(edits, v)
            /\ pc' = [pc EXCEPT ![v] = "run_command"]
    /\ UNCHANGED <<report_on, linters, editing, output>>
    /\ UNCHANGED <<navVars, chooser>>

\* output.run_command('sublimelinter_edit'): the command starts when no other
\* edit of the output view is in progress, and takes the waiting callbacks
EditBegin(v) ==
    /\ pc[v] = "run_command"
    /\ editing = None
    /\ editing' = <<v, edits>>
    /\ edits' = <<>>
    /\ pc' = [pc EXCEPT ![v] = "edit"]
    /\ UNCHANGED <<report_on, linters, output>>
    /\ UNCHANGED <<navVars, chooser>>

\* the command calls the next of its callbacks: insert(edit)
EditInsert(v) ==
    /\ pc[v] = "edit"
    /\ editing[2] # <<>>
    /\ output' = insert(output, linters[Head(editing[2])])
    /\ editing' = <<v, Tail(editing[2])>>
    /\ UNCHANGED <<report_on, linters, pc, edits>>
    /\ UNCHANGED <<navVars, chooser>>

\* the command has called all its callbacks and returns
EditEnd(v) ==
    /\ pc[v] = "edit"
    /\ editing[2] = <<>>
    /\ editing' = None
    /\ pc' = [pc EXCEPT ![v] = "done"]
    /\ UNCHANGED <<report_on, linters, edits, output>>
    /\ UNCHANGED <<navVars, chooser>>

\* a step of the thread of view v
Worker(v) ==
    \/ Lint(v)
    \/ FinishLint(v)
    \/ EditBegin(v)
    \/ EditInsert(v)
    \/ EditEnd(v)

NextReport ==
    \/ \E on \in {"files", "folders", "both"} : ReportRun(on)
    \/ \E v \in Views : Worker(v)

SpecReport == InitReport /\ [][NextReport]_vars

\* the threads are scheduled: a thread that can take a step takes one
SpecReportFair == SpecReport /\ \A v \in Views : WF_vars(Worker(v))

----------------------------------------------------------------------------
(* ChooseSettingCommand: choose and set. A string is a sequence of         *)
(* character codes; an option of get_settings is a plain string or a list  *)
(* [name, description]. The record chooser holds the stored value of the   *)
(* setting (persist.settings), the value it had when the command was       *)
(* created, the list get_settings returns, self.settings, whether the      *)
(* quick panel is open with its preselected row, and the last operation    *)
(* with its argument, the calls it made and the exception it ended with.   *)

\* str.lower() of one character: 'A'..'Z' become 'a'..'z'
lower_char(c) == IF c >= 65 /\ c <= 90 THEN c + 32 ELSE c

\* str.lower()
lower(str) == [i \in 1..Len(str) |-> lower_char(str[i])]

Str(text) == [kind |-> "str", text |-> text]
List(name, description) == [kind |-> "list", items |-> <<name, description>>]

\* the name of an option: s[0] if isinstance(s, (tuple, list)) else s
option_name(s) == IF s.kind = "list" THEN s.items[1] ELSE s.text

\* the lists get_settings can return: none (the base class), the lint modes
\* as [Name, description] lists, or names with a final tuple as the gutter
\* themes have
OptionLists ==
    { <<>>,
      << List(<<66, 103>>, <<100>>), List(<<76, 115>>, <<100>>), List(<<77>>, <<100>>) >>,
      << Str(<<98, 103>>), Str(<<67>>), List(<<78>>, <<100>>) >> }

\* values the setting can have when the command is created, and values a
\* caller can pass to choose
SettingValues == { <<98, 103>>, <<108, 115>>, <<66, 103>>, <<120>>, <<110>> }

\* choose() without a 'value' argument
NoValue == <<>>

\* a choose that leaves the index at -1 when no option matches
match_index_or_cancel(settings, setting) ==
    LET hits == {i \in 1..Len(settings) : lower(option_name(settings[i])) = setting}
    IN IF hits = {} THEN -1 ELSE SetMin(hits) - 1

\* the loop of choose: the index of the first option whose lowercased name is
\* setting, 0 when there is none
match_index(settings, setting) ==
    LET hits == {i \in 1..Len(settings) : lower(option_name(settings[i])) = setting}
    IN IF hits = {} THEN 0 ELSE SetMin(hits) - 1

\* set(index): the stored value it leaves, the calls it makes and the
\* exception it ends with
set(settings, old_setting, index) ==
    IF index = -1
    THEN [setting |-> old_setting, calls |-> <<>>, raised |-> ""]
    ELSE IF index >= Len(settings)
    THEN [setting |-> old_setting, calls |-> <<>>, raised |-> "IndexError"]
    ELSE LET setting == lower(option_name(settings[index + 1]))
         IN IF setting = old_setting
            THEN [setting |-> old_setting, calls |-> <<>>, raised |-> ""]
            ELSE [setting |-> setting,
                  calls |-> <<"change_setting", "setting_was_changed",
                              "update_user_settings">>,
                  raised |-> ""]

InitSetting ==
    /\ warnMarks = <<>> /\ errMarks = <<>>
    /\ wrap_find = TRUE
    /\ errors = <<>>
    /\ lines = NavLines
    /\ sel = << <<0, 0>> >>
    /\ error_info = <<>>
    /\ options = <<>>
    /\ call = NoCall
    /\ region_to_select = None
    /\ marked_region = None
    /\ dialog = ""
    /\ raised = ""
    /\ ReportIdle
    /\ \E initial \in SettingValues, list \in OptionLists :
          chooser = [op |-> "init", setting |-> initial, initial |-> initial,
                     get_settings |-> list, settings |-> <<>>,
                     panel |-> FALSE, selected_index |-> 0,
                     value |-> NoValue, index |-> 0,
                     calls |-> <<>>, raised |-> ""]

\* choose(**args), value being args['value'] or NoValue
Choose(value) ==
    /\ chooser.op # "none"
    /\ LET settings == chooser.get_settings
           setting == IF value # NoValue THEN lower(value) ELSE lower(chooser.setting)
           index == match_index(settings, setting)
       IN IF value # NoValue
          THEN \E r \in {set(settings, chooser.setting, index)} :
                  chooser' = [chooser EXCEPT !.op = "choose", !.settings = settings,
                                             !.value = value, !.index = index,
                                             !.setting = r.setting, !.calls = r.calls,
                                             !.raised = r.raised,
                                             !.panel = FALSE]
          ELSE chooser' = [chooser EXCEPT !.op = "choose", !.settings = settings,
                                          !.value = value, !.index = index,
                                          !.calls = <<>>, !.raised = "",
                                          !.panel = TRUE, !.selected_index = index]
    /\ UNCHANGED <<navVars, reportVars>>

\* the quick panel calls self.set with the picked row, -1 when cancelled
PanelSet(index) ==
    /\ chooser.op # "none"
    /\ chooser.panel
    /\ \E r \in {set(chooser.settings, chooser.setting, index)} :
          chooser' = [chooser EXCEPT !.op = "set", !.value = NoValue, !.index = index,
                                     !.setting = r.setting, !.calls = r.calls,
                                     !.raised = r.raised, !.panel = FALSE]
    /\ UNCHANGED <<navVars, reportVars>>

NextSetting ==
    \/ \E value \in SettingValues \cup {NoValue} : Choose(value)
    \/ \E index \in -1..(Len(chooser.settings) - 1) : PanelSet(index)

SpecSetting == InitSetting /\ [][NextSetting]_vars

----------------------------------------------------------------------------
(* Properties of goto_error, checked under Spec.                           *)

\* the ordered region set the command c scanned
RegionSetOf(c) == Range(c.regions)
RegionSet == RegionSetOf(call)

\* the command c was a goto that reached goto_error with a region to scan
GotoRan(c) == c.op = "goto" /\ errors # <<>> /\ c.regions # <<>>

\* p lies strictly between two regions
StrictlyBetween(p) ==
    /\ \E r \in RegionSet : end(r) < p
    /\ \E r \in RegionSet : begin(r) > p
    /\ \A r \in RegionSet : ~(begin(r) <= p /\ p <= end(r))

FirstRegion(c) == c.regions[1]
LastRegion(c) == c.regions[Len(c.regions)]

\* C2 (wrap law): with wrap_find enabled, 'next' from an anchor past the end
\* of the last region returns the first region and 'previous' from an anchor
\* before the begin of the first region returns the last region.
C2_WrapLaw ==
    (GotoRan(call) /\ wrap_find) =>
        /\ (call.direction = "next" /\ call.point > end(LastRegion(call)))
              => region_to_select = FirstRegion(call)
        /\ (call.direction = "previous" /\ call.point < begin(FirstRegion(call)))
              => region_to_select = LastRegion(call)

\* a 'previous' that wrapped to the last of two regions
C2_Witness ==
    /\ GotoRan(call) /\ wrap_find /\ call.direction = "previous"
    /\ Len(call.regions) = 2
    /\ call.point < begin(FirstRegion(call))
    /\ region_to_select = call.regions[2]

\* a 'next' that wrapped onto the only region
C2_WitnessSingle ==
    /\ GotoRan(call) /\ wrap_find /\ call.direction = "next"
    /\ Len(call.regions) = 1
    /\ call.point > end(FirstRegion(call))
    /\ region_to_select = FirstRegion(call)

\* the anchor of the command c is past the last region ('next') or before
\* the first region ('previous')
BeyondTheEnds(c) ==
    \/ c.direction = "next" /\ c.point > end(LastRegion(c))
    \/ c.direction = "previous" /\ c.point < begin(FirstRegion(c))

\* C3 as claimed (no-wrap law): with wrap_find disabled and the anchor beyond
\* the regions in the direction of travel, goto_error returns no region,
\* shows 'No <direction> lint error.' and leaves the selection equal to the
\* selection before the call, for every prior selection.
C3_NoWrapLaw_AsClaimed ==
    [][(GotoRan(call') /\ ~wrap_find' /\ BeyondTheEnds(call')) =>
          /\ region_to_select' = None
          /\ dialog' = no_more_message(call'.direction)
          /\ sel' = sel]_vars

\* C3 as amended: the same, for every prior selection of at least one range;
\* a view without any selection range is left with the caret [0,0) that
\* goto_error adds before saving the selection.
C3_NoWrapLaw ==
    [][(GotoRan(call') /\ ~wrap_find' /\ BeyondTheEnds(call')) =>
          /\ region_to_select' = None
          /\ dialog' = no_more_message(call'.direction)
          /\ sel' = (IF sel = <<>> THEN << <<0, 0>> >> ELSE sel)]_vars

\* a failed 'next' without wrap that left a selection of two ranges
C3_Witness ==
    /\ GotoRan(call) /\ ~wrap_find /\ BeyondTheEnds(call)
    /\ call.direction = "next"
    /\ dialog = "No next lint error."
    /\ Len(sel) = 2

\* C4 (single-region stasis): with one region, the anchor inside it and a
\* selection that is not a single empty caret, goto_error in either
\* direction, wrap enabled or not, returns no region, shows
\* 'No <direction> lint error.' and leaves the selection as it was.
C4_SingleRegionStasis ==
    [][(/\ GotoRan(call')
        /\ Len(call'.regions) = 1
        /\ begin(FirstRegion(call')) <= call'.point
        /\ call'.point <= end(FirstRegion(call'))
        /\ ~call'.empty_selection) =>
          /\ region_to_select' = None
          /\ dialog' = no_more_message(call'.direction)
          /\ sel' = sel]_vars

\* a 'previous' inside the only region, wrap enabled, that did not move
C4_Witness ==
    /\ GotoRan(call) /\ wrap_find /\ call.direction = "previous"
    /\ Len(call.regions) = 1
    /\ begin(FirstRegion(call)) < call.point
    /\ call.point <= end(FirstRegion(call))
    /\ ~call.empty_selection
    /\ dialog = "No previous lint error."
    /\ sel # <<>>

\* the caret of the command c sat at the begin of the non-empty region r,
\* one of several regions, and the command was a 'next'
CaretAtBeginOf(c, r) ==
    /\ GotoRan(c) /\ c.direction = "next" /\ c.empty_selection
    /\ r \in RegionSetOf(c) /\ ~empty(r) /\ c.point = begin(r)
    /\ Len(c.regions) >= 2

MarksWithin(r) ==
    {m \in Range(warnMarks) \cup Range(errMarks) :
        begin(m) >= begin(r) /\ end(m) <= end(r)}

\* C6 (selection replacement): after a goto_error that returned a region r
\* the selection is exactly one range: a mark with the least begin among the
\* marks inside r, or [r.begin, r.begin) when r holds no mark; it lies in r.
C6_SelectionReplacement ==
    (GotoRan(call) /\ region_to_select # None) =>
        /\ Len(sel) = 1
        /\ begin(region_to_select) <= begin(sel[1])
        /\ end(sel[1]) <= end(region_to_select)
        /\ IF MarksWithin(region_to_select) = {}
           THEN sel[1] = <<begin(region_to_select), begin(region_to_select)>>
           ELSE /\ sel[1] \in MarksWithin(region_to_select)
                /\ \A m \in MarksWithin(region_to_select) : begin(sel[1]) <= begin(m)

\* a goto over two regions that selected a mark smaller than its region
C6_Witness ==
    /\ GotoRan(call) /\ region_to_select # None
    /\ Len(call.regions) = 2
    /\ sel # <<region_to_select>>

\* C12 (empty region set): when goto_error runs on a view with a non-empty
\* error map and no warning or error region, it ends with the dialog
\* 'No lint errors.' and without an exception, returns no region and leaves
\* the selection as it was before the call.
C12_EmptyRegionSet ==
    [][(call'.op = "goto" /\ errors' # <<>> /\ call'.regions = <<>>) =>
          /\ raised' = ""
          /\ dialog' = "No lint errors."
          /\ region_to_select' = None
          /\ sel' = sel]_vars

\* the place of region r in the region sequence rs
IndexOf(rs, r) == CHOOSE i \in 1..Len(rs) : rs[i] = r

\* the region after r in ascending cyclic order ('next') or before it
\* ('previous')
CyclicNeighbour(rs, r, direction) ==
    IF direction = "next"
    THEN rs[(IndexOf(rs, r) % Len(rs)) + 1]
    ELSE rs[((IndexOf(rs, r) + Len(rs) - 2) % Len(rs)) + 1]

\* C15 (navigation never gets stuck): with wrap enabled and at least two
\* regions every goto selects a region, and a goto that starts from the
\* selection left by a goto of the same direction selects another region
\* than that one did: the next region in ascending cyclic order for 'next',
\* the one before it for 'previous'.
C15_NeverStuck ==
    [][/\ (GotoRan(call') /\ wrap_find' /\ Len(call'.regions) >= 2) =>
              region_to_select' # None
       /\ (/\ GotoRan(call) /\ wrap_find /\ region_to_select # None
           /\ GotoRan(call') /\ wrap_find' /\ Len(call'.regions) >= 2
           /\ call'.direction = call.direction) =>
              /\ region_to_select' # region_to_select
              /\ region_to_select' =
                    CyclicNeighbour(call'.regions, region_to_select, call'.direction)]_vars

----------------------------------------------------------------------------
(* Properties of the backward scan, checked under SpecScan.                *)

\* r comes before q in descending end order, equal ends in descending begin
EndDescending(r, q) == end(r) > end(q) \/ (end(r) = end(q) /\ begin(r) >= begin(q))

RECURSIVE sort_by_end_descending(_)
\* the regions in descending end order
sort_by_end_descending(rs) ==
    IF rs = <<>> THEN <<>>
    ELSE LET rest == sort_by_end_descending(SubSeq(rs, 1, Len(rs) - 1))
             r == rs[Len(rs)]
             k == Cardinality({i \in 1..Len(rest) : EndDescending(rest[i], r)})
         IN SubSeq(rest, 1, k) \o <<r>> \o SubSeq(rest, k + 1, Len(rest))

\* the first region, in descending end order, that passes the backward test
previous_by_end(regions, point, empty_selection) ==
    LET order == sort_by_end_descending(regions)
        hits == {i \in 1..Len(order) : previous_match(order[i], point, empty_selection)}
    IN IF hits = {} THEN None ELSE order[SetMin(hits)]

\* the last scan went backward
ScannedBackward == call.op = "scan" /\ call.direction = "previous"

\* the region sequence is one a sublime.Selection holds: ascending, and no
\* two regions intersect
KeptBySelection(rs) == sel_add_all(<<>>, rs) = rs

----------------------------------------------------------------------------
(* Properties of find_mark_within, checked under SpecMark.                 *)

\* C7 (containment precedence): find_mark_within returns a mark with the
\* least begin among the marks fully contained in the region, and none
\* exactly when no mark is fully contained; never a mark that only overlaps.
C7_ContainmentPrecedence ==
    call.op = "find_mark_within" =>
        IF MarksWithin(call.region) = {}
        THEN marked_region = None
        ELSE /\ marked_region \in MarksWithin(call.region)
             /\ \A m \in MarksWithin(call.region) : begin(marked_region) <= begin(m)

\* the returned mark is stored after a contained mark that begins later
C7_Witness ==
    /\ call.op = "find_mark_within"
    /\ marked_region # None
    /\ Len(stored_marks(warnMarks, errMarks)) = 2
    /\ stored_marks(warnMarks, errMarks)[2] = marked_region
    /\ stored_marks(warnMarks, errMarks)[1] \in MarksWithin(call.region)
    /\ begin(stored_marks(warnMarks, errMarks)[1]) > begin(marked_region)

\* a mark overlaps the region without lying in it, and none lies in it
C7_WitnessNone ==
    /\ call.op = "find_mark_within"
    /\ marked_region = None
    /\ \E m \in Range(stored_marks(warnMarks, errMarks)) :
          intersects(m, call.region)

----------------------------------------------------------------------------
(* Properties of the pick, checked under SpecPick.                         *)

\* the regions that begin at p, and those that begin after it
RegionsStartingAt(p) == {r \in RegionSet : begin(r) = p}
RegionsAfter(p) == {r \in RegionSet : begin(r) > p}

\* C8 (the pick lands on the picked diagnostic): after select_error with a
\* row index other than -1 the selection is one range inside the region that
\* begins at the row's point or, when no region begins there, inside the
\* first region after it; the region is not one that ends before the point,
\* and the call does not end with 'No next lint error.'.
C8_PickLandsOnDiagnostic ==
    (call.op = "select_error" /\ call.index # -1) =>
        /\ dialog # "No next lint error."
        /\ region_to_select # None
        /\ ~(end(region_to_select) < call.point)
        /\ IF RegionsStartingAt(call.point) # {}
           THEN region_to_select \in RegionsStartingAt(call.point)
           ELSE /\ region_to_select \in RegionsAfter(call.point)
                /\ \A q \in RegionsAfter(call.point) :
                      begin(region_to_select) <= begin(q)
        /\ Len(sel) = 1
        /\ begin(region_to_select) <= begin(sel[1])
        /\ end(sel[1]) <= end(region_to_select)

\* C13 (a failed pick leaves the selection unchanged): when select_error is
\* called with an index other than -1 and its goto_error finds no region to
\* select and shows 'No next lint error.', the selection after the call is
\* the selection before the call; with index -1 the selection is unchanged too.
\* Stated for the views that have at least one selection range before the call.
C13_FailedPickFrame ==
    [][(/\ call'.op = "select_error"
        /\ sel # <<>>
        /\ \/ call'.index = -1
           \/ (region_to_select' = None /\ dialog' = "No next lint error.")) =>
          sel' = sel]_vars

----------------------------------------------------------------------------
(* Properties of the quick list, checked under SpecList.                   *)

\* the key (line, column, message) of row i
RowKey(i) == <<error_info[i][1], error_info[i][2], options[i][1][2]>>

KeyLe(a, b) ==
    \/ a[1] < b[1]
    \/ a[1] = b[1] /\ a[2] < b[2]
    \/ a[1] = b[1] /\ a[2] = b[2] /\ a[3] <= b[3]

\* how often the diagnostic (line, column, message) is stored in the error map
StoredCount(key) ==
    Cardinality({ik \in (1..Len(errors)) \X (1..MaxDiags) :
                    /\ errors[ik[1]][1] = key[1]
                    /\ ik[2] <= Len(errors[ik[1]][2])
                    /\ errors[ik[1]][2][ik[2]] = <<key[2], key[3]>>})

RowCount(key) == Cardinality({i \in 1..Len(options) : RowKey(i) = key})

ListShown == call.op = "show_all" /\ errors # <<>>

\* C9 (quick-list ordering): the list has one row per stored diagnostic (a
\* diagnostic stored twice has two rows, and no row is invented), and the rows
\* ascend by (line, column, message) whatever the stored order was.
C9_QuickListOrdering ==
    ListShown =>
        /\ Len(error_info) = Len(options)
        /\ \A i \in 1..Len(options) : RowCount(RowKey(i)) = StoredCount(RowKey(i))
        /\ \A i \in 1..Len(errors) : \A k \in 1..Len(errors[i][2]) :
              LET key == <<errors[i][1], errors[i][2][k][1], errors[i][2][k][2]>>
              IN RowCount(key) = StoredCount(key)
        /\ \A i \in 1..Len(options) : \A j \in i..Len(options) :
              KeyLe(RowKey(i), RowKey(j))

\* a list built from a map that stores line 1 before line 0 and, on a line,
\* a later column before an earlier one
C9_Witness ==
    /\ ListShown
    /\ Len(errors) = 2 /\ errors[1][1] > errors[2][1]
    /\ Len(errors[1][2]) = 2 /\ errors[1][2][1][1] > errors[1][2][2][1]
    /\ Len(options) = 3

\* s without its k-th element
RemoveAt(s, k) == SubSeq(s, 1, k - 1) \o SubSeq(s, k + 1, Len(s))

\* the line of row i without its line end, and with its leading whitespace stripped
RowFullLine(i) == rstrip(lines[error_info[i][1] + 1], {NL, CR})
RowLine(i) == lstrip(RowFullLine(i))
RowAdjustedColumn(i) == error_info[i][2] - (Len(RowFullLine(i)) - Len(RowLine(i)))

\* C10 (truncation boundary): for every row whose diagnostic lies in its
\* line, if the adjusted column is above 40 the preview is '...' and the
\* stripped line from adjustedColumn-40 on, with the marker spliced in at
\* position 43; otherwise it is the stripped line with the marker spliced in
\* at the adjusted column (at position 0 when the adjusted column is
\* negative, the reading most favourable to the code). The marker stands
\* right before the character at the diagnostic's column when the preview
\* holds that character.
C10_TruncationBoundary ==
    ListShown =>
        \A i \in 1..Len(options) :
            LET code == options[i][2]
                adj == RowAdjustedColumn(i)
                at == IF adj < 0 THEN 0 ELSE adj
                column == error_info[i][2]
            IN column <= Len(RowFullLine(i)) =>
                 /\ IF adj > max_prefix_len
                    THEN /\ Len(code) >= max_prefix_len + 4
                         /\ code[max_prefix_len + 4] = ARROW
                         /\ RemoveAt(code, max_prefix_len + 4) =
                               <<DOT, DOT, DOT>> \o
                               SubSeq(RowLine(i), adj - max_prefix_len + 1, Len(RowLine(i)))
                    ELSE /\ Len(code) >= at + 1
                         /\ code[at + 1] = ARROW
                         /\ RemoveAt(code, at + 1) = RowLine(i)
                 /\ (adj >= 0 /\ column < Len(RowFullLine(i))) =>
                       \E k \in 1..(Len(code) - 1) :
                           code[k] = ARROW /\ code[k + 1] = RowFullLine(i)[column + 1]

\* C14 (negative adjusted column): for every row whose diagnostic has a
\* column smaller than the number of whitespace characters stripped from its
\* line, the preview is the stripped line, not truncated, with the marker
\* inserted at position 0.
C14_NegativeColumnClamped ==
    ListShown =>
        \A i \in 1..Len(options) :
            RowAdjustedColumn(i) < 0 => options[i][2] = <<ARROW>> \o RowLine(i)

\* the diagnostics (column, message) stored for line lineno
StoredAt(lineno) ==
    UNION {Range(errors[i][2]) : i \in {k \in 1..Len(errors) : errors[k][1] = lineno}}

\* the number of characters before line lineno
LineStart(lineno) == text_point(lines, lineno, 0)

\* C17 (row-to-position alignment): once the list is built, error_info and
\* the option list have the same length, row i is labelled with the line of
\* error_info[i] and the message of a diagnostic stored for that line at the
\* column of error_info[i], and a pick of row i navigates to the start of
\* that line plus that stored column, whatever was stripped or cut off for
\* the preview.
C17_RowAlignment ==
    /\ call.op \in {"show_all", "select_error"} =>
          /\ Len(error_info) = Len(options)
          /\ \A i \in 1..Len(options) :
                /\ options[i][1][1] = error_info[i][1] + 1
                /\ <<error_info[i][2], options[i][1][2]>> \in StoredAt(error_info[i][1])
    /\ (call.op = "select_error" /\ call.index # -1) =>
          \E d \in StoredAt(error_info[call.index + 1][1]) :
             /\ d[2] = options[call.index + 1][1][2]
             /\ call.point = LineStart(error_info[call.index + 1][1]) + d[1]

\* a pick of a row whose line lost leading whitespace and whose preview was
\* cut off
C17_Witness ==
    /\ call.op = "select_error" /\ call.index = 0
    /\ Len(RowFullLine(1)) > Len(RowLine(1))
    /\ RowAdjustedColumn(1) > max_prefix_len
    /\ call.point = error_info[1][2]

----------------------------------------------------------------------------
(* Properties of the report, checked under SpecReport and SpecReportFair.  *)

\* the views whose linters reported at least one error
ErrViews == {v \in Views : any_errors(linters[v])}

RECURSIVE Fragments(_)
\* the fragments of the views of s, one after the other
Fragments(s) ==
    IF s = <<>> THEN <<>> ELSE fragment(linters[Head(s)]) \o Fragments(Tail(s))

\* the sequences of distinct elements of S
Orders(S) ==
    {s \in SeqsUpTo(S, Cardinality(S)) : \A i, j \in 1..Len(s) : i # j => s[i] # s[j]}

\* the threads inside the edit command of the output view
InEdit == {v \in Views : pc[v] = "edit"}

\* C11 (fragment atomicity): in every interleaving of the report threads the
\* output text is a concatenation of whole fragments (a header and all the
\* error lines of one view) of distinct views with errors, and at most one
\* thread at a time is inside the edit command that appends to the output.
C11_FragmentAtomicity ==
    /\ \E s \in Orders(ErrViews) : output = Fragments(s)
    /\ Cardinality(InEdit) <= 1
    /\ editing # None => InEdit = {editing[1]}

\* two threads finished together: the edit command of w has appended the
\* fragment of v and then its own while v still waits to run its command
C11_Witness ==
    \E v, w \in ErrViews :
        /\ v # w
        /\ pc[v] = "run_command" /\ pc[w] = "edit"
        /\ output = fragment(linters[v]) \o fragment(linters[w])
        /\ Len(fragment(linters[w])) > 2

\* the report command ran over the views of the window
ReportStarted == report_on \in {"files", "both"}

\* every thread has ended and no edit command is in progress
ReportEnded == ReportStarted /\ editing = None /\ \A v \in Views : pc[v] = "done"

\* the output holds the fragment of every view with errors exactly once, in
\* some order, and nothing else
ReportComplete ==
    \E s \in Orders(ErrViews) : Len(s) = Cardinality(ErrViews) /\ output = Fragments(s)

\* C18 (report completeness): in every interleaving of the threads of one
\* report run over the views, the run ends, and when it has ended the output
\* holds exactly one fragment for every view whose linters reported an
\* error, in some order, and nothing for the views without linters or
\* without errors.
C18_ReportCompleteness ==
    /\ [](ReportEnded => ReportComplete)
    /\ (ReportStarted ~> (ReportEnded /\ ReportComplete))

\* a run that ended with the fragments of two views, the second view's first,
\* while another view had linters without errors or no linter
C18_Witness ==
    /\ ReportEnded
    /\ Cardinality(ErrViews) >= 2
    /\ output = fragment(linters[2]) \o fragment(linters[1])

\* a run that ended with an empty output although a view had linters
C18_WitnessNoErrors ==
    /\ ReportEnded
    /\ output = <<>>
    /\ \E v \in Views : linters[v] # <<>>

----------------------------------------------------------------------------
(* Properties of ChooseSettingCommand, checked under SpecSetting.          *)

\* the lowercased names of the options get_settings returns
OptionNames == {lower(option_name(o)) : o \in Range(chooser.get_settings)}

\* the operation of this step called set with the index of an option whose
\* lowercased name is the value stored before the step
SetOfCurrentValue ==
    /\ \/ chooser'.op = "set"
       \/ chooser'.op = "choose" /\ chooser'.value # NoValue
    /\ chooser'.index >= 0 /\ chooser'.index < Len(chooser'.settings)
    /\ lower(option_name(chooser'.settings[chooser'.index + 1])) = chooser.setting

\* the operation of this step was a choose with a value that is the name
\* of no option, uppercase or lowercase
ChooseOfUnknownValue ==
    /\ chooser'.op = "choose" /\ chooser'.value # NoValue
    /\ lower(chooser'.value) \notin OptionNames

\* C19 (setting choice): the stored value is always the initial value or the
\* lowercased name of an option of get_settings; set(-1) and a set of the
\* option that is the current value leave the value as it is and call
\* neither change_setting nor setting_was_changed nor update_user_settings;
\* and a choose with a 'value' that matches no option leaves the value as it
\* is.
C19_SettingChoice ==
    [][/\ chooser'.setting \in {chooser'.initial} \cup OptionNames
       /\ ((chooser'.op = "set" /\ chooser'.index = -1) \/ SetOfCurrentValue) =>
              (chooser'.setting = chooser.setting /\ chooser'.calls = <<>>)
       /\ ChooseOfUnknownValue => chooser'.setting = chooser.setting]_vars

====
